---- MODULE Spec2Model ----
(***************************************************************************)
(* Cart and checkout API views of saas/api/billing.py.                     *)
(*                                                                         *)
(* One client is modelled: its HTTP session (the anonymous cart lives in   *)
(* request.session['cart_items']), the unrecorded CartItem rows of its     *)
(* user in the database (each with the coupon applied to it), the charges  *)
(* persisted for the organization and the organization's address.  Every   *)
(* action is one request, handled from start to end; `req` records the     *)
(* request with the state it found and `resp` the response with the calls  *)
(* the handler made to its collaborators.  A cart item is identified by    *)
(* its plan; the payload fields (option, first_name, last_name, sync_on)   *)
(* are passed through to insert_item and are not represented.              *)
(***************************************************************************)
EXTENDS Integers, Sequences, FiniteSets

VARIABLES session, dbCart, charges, address, req, resp

vars == <<session, dbCart, charges, address, req, resp>>

(***************************************************************************)
(* Bounds of the model.                                                    *)
(***************************************************************************)
MaxItems == 2        \* longest list of items in a POST /cart/ body
MaxRows == 2         \* most rows in an uploaded CSV file
MaxSelections == 1   \* longest `items` list in a checkout body
MaxCharges == 1      \* charges persisted before checkout is no longer taken

(***************************************************************************)
(* Data.                                                                   *)
(***************************************************************************)
Plans == {"basic", "premium"}         \* slugs PlanRelatedField resolves
NoPlan == "nosuch"                    \* a slug that resolves to no plan
Slugs == Plans \cup {NoPlan}
CouponCodes == {"LABORDAY"}           \* codes of existing coupons
Codes == CouponCodes \cup {"BOGUS", ""}
SelValues == -1..3                    \* `option` values of checkout items
Addresses == {"", "addr"}             \* "" is an empty address

\* CSV rows as csv.reader yields them: lists of fields.  A well-formed row
\* has the three fields first_name, last_name, email.
Rows == {<<"Joe", "Smith", "joesmith@example.com">>,
         <<"Marie", "Johnson">>}

SeqsUpTo(S, n) == UNION {[1..k -> S] : k \in 0..n}

ItemData == [plan : Slugs]

\* request.data of POST /cart/: one item (a mapping) or a list of items.
SingleBodies == [kind : {"single"}, data : ItemData]
Bodies == SingleBodies \cup [kind : {"list"}, data : SeqsUpTo(ItemData, MaxItems)]

PlansOf(cart) == {cart[i].plan : i \in 1..Len(cart)}

\* Number of cart items of `cart` that are for `plan`.
Count(cart, plan) == Cardinality({i \in 1..Len(cart) : cart[i].plan = plan})

(***************************************************************************)
(* CartItemCreateSerializer: an item is valid when its plan resolves.      *)
(***************************************************************************)
IsValidItem(d) == d.plan \in Plans

\* get_serializer(data=request.data).is_valid()
SingleIsValid(body) == body.kind = "single" /\ IsValidItem(body.data)

\* get_serializer(data=request.data, many=True).is_valid()
ManyIsValid(body) ==
    /\ body.kind = "list"
    /\ \A i \in 1..Len(body.data) : IsValidItem(body.data[i])

\* `items` of CartItemAPIView.post after the two validation attempts; the
\* empty sequence stands for both None and [] (`not items`).
ValidatedItems(body) ==
    IF SingleIsValid(body) THEN <<body.data>>
    ELSE IF ManyIsValid(body) THEN body.data
    ELSE <<>>

(***************************************************************************)
(* CartMixin.insert_item, on the session cart (anonymous) or the database  *)
(* cart (authenticated): the item of the cart for the same plan is         *)
(* updated, otherwise a new item is added; returns the cart and `created`. *)
(***************************************************************************)
NewItem(auth, item) ==
    IF auth THEN [plan |-> item.plan, coupon |-> ""] ELSE [plan |-> item.plan]

InsertItem(auth, cart, item) ==
    IF \E i \in 1..Len(cart) : cart[i].plan = item.plan
    THEN [cart |-> cart, created |-> FALSE]
    ELSE [cart |-> Append(cart, NewItem(auth, item)), created |-> TRUE]

\* Mutant of InsertAll: every item of the request is looked up in the cart
\* as it was when the request started.
RECURSIVE InsertAllStaleLoop(_, _, _, _, _)
InsertAllStaleLoop(auth, cart0, cart, items, flags) ==
    IF items = <<>> THEN [cart |-> cart, flags |-> flags]
    ELSE IF Head(items).plan \in PlansOf(cart0)
         THEN InsertAllStaleLoop(auth, cart0, cart, Tail(items),
                                 Append(flags, FALSE))
         ELSE InsertAllStaleLoop(auth, cart0,
                                 Append(cart, NewItem(auth, Head(items))),
                                 Tail(items), Append(flags, TRUE))

InsertAllStale(auth, cart, items) ==
    InsertAllStaleLoop(auth, cart, cart, items, <<>>)

\* The loop `for item in items: cart_item, created = self.insert_item(...)`.
RECURSIVE InsertLoop(_, _, _, _)
InsertLoop(auth, cart, items, flags) ==
    IF items = <<>> THEN [cart |-> cart, flags |-> flags]
    ELSE LET r == InsertItem(auth, cart, Head(items))
         IN  InsertLoop(auth, r.cart, Tail(items), Append(flags, r.created))

InsertAll(auth, cart, items) == InsertLoop(auth, cart, items, <<>>)

\* Mutant of PostStatus: the status follows the last item only.
PostStatusLast(flags) == IF flags[Len(flags)] THEN 201 ELSE 200

\* status_code of CartItemAPIView.post for the `created` flags of its items.
PostStatus(flags) ==
    IF \E i \in 1..Len(flags) : flags[i] THEN 201 ELSE 200

\* Mutant of Post: the valid items of a list are inserted as they are met,
\* and 400 is answered when one of the list is invalid.
PostEager(auth, cart, body) ==
    IF body.kind = "list" /\ ~ManyIsValid(body)
    THEN LET items == SelectSeq(body.data, IsValidItem)
             r == InsertAll(auth, cart, items)
         IN  [status |-> 400, cart |-> r.cart, inserted |-> items,
              created |-> r.flags, as_list |-> FALSE]
    ELSE LET items == ValidatedItems(body)
             r == InsertAll(auth, cart, items)
         IN  IF items = <<>>
             THEN [status |-> 400, cart |-> cart, inserted |-> <<>>,
                   created |-> <<>>, as_list |-> FALSE]
             ELSE [status |-> PostStatus(r.flags), cart |-> r.cart,
                   inserted |-> items, created |-> r.flags,
                   as_list |-> Len(items) > 1]

\* CartItemAPIView.post on the cart of the request: the response status, the
\* cart afterwards, the items insert_item was called with, the `created`
\* flag of each, and whether the body of the response is a list.
Post(auth, cart, body) ==
    LET items == ValidatedItems(body)
        r == InsertAll(auth, cart, items)
    IN  IF items = <<>>
        THEN [status |-> 400, cart |-> cart, inserted |-> <<>>,
              created |-> <<>>, as_list |-> FALSE]
        ELSE [status |-> PostStatus(r.flags), cart |-> r.cart,
              inserted |-> items, created |-> r.flags,
              as_list |-> Len(items) > 1]

Pre == [session |-> session, dbCart |-> dbCart, charges |-> charges,
        address |-> address]

Init ==
    /\ session = <<>>
    /\ dbCart = <<>>
    /\ charges = <<>>
    /\ address = ""
    /\ req = [op |-> "init"]
    /\ resp = [status |-> 0]

(***************************************************************************)
(* POST /cart/  (CartItemAPIView.post)                                     *)
(***************************************************************************)
CartItemPostWith(auths, bodies) ==
    \E auth \in auths, body \in bodies :
        LET r == Post(auth, IF auth THEN dbCart ELSE session, body)
        IN  /\ req' = [op |-> "cart_post", auth |-> auth, body |-> body,
                       pre |-> Pre]
            /\ resp' = [status |-> r.status, inserted |-> r.inserted,
                        created |-> r.created, as_list |-> r.as_list]
            /\ session' = IF auth THEN session ELSE r.cart
            /\ dbCart' = IF auth THEN r.cart ELSE dbCart
            /\ UNCHANGED <<charges, address>>

CartItemPost == CartItemPostWith(BOOLEAN, Bodies)

(***************************************************************************)
(* POST /cart/{plan}/upload/  (CartItemUploadAPIView.post)                 *)
(***************************************************************************)
\* `first_name, last_name, email = row` succeeds on a row of three fields;
\* on any other row it raises ValueError.
Unpacks(row) == Len(row) = 3

\* CartItemCreateSerializer(data={'plan': plan, ...}).is_valid()
RowIsValid(plan, row) == IsValidItem([plan |-> plan])

\* Mutant of UploadLoop: a row that does not unpack is put in `failed` and
\* the loop goes on.
RECURSIVE UploadLoopTolerant(_, _, _, _, _)
UploadLoopTolerant(auth, plan, rows, i, acc) ==
    IF i > Len(rows) THEN acc
    ELSE IF ~Unpacks(rows[i])
    THEN UploadLoopTolerant(auth, plan, rows, i + 1,
             [acc EXCEPT !.failed = Append(@, i)])
    ELSE IF RowIsValid(plan, rows[i])
    THEN LET r == InsertItem(auth, acc.cart, [plan |-> plan])
         IN  UploadLoopTolerant(auth, plan, rows, i + 1,
                 IF r.created
                 THEN [acc EXCEPT !.cart = r.cart, !.created = Append(@, i)]
                 ELSE [acc EXCEPT !.cart = r.cart, !.updated = Append(@, i)])
    ELSE UploadLoopTolerant(auth, plan, rows, i + 1,
             [acc EXCEPT !.failed = Append(@, i)])

\* The loop `for row in filed` from row i on; `acc` holds the cart and the
\* three buckets (rows are named by their position in the file).  The
\* except clause names csv.Error only, so the ValueError of a row that does
\* not unpack leaves the loop and the handler (acc.raised).
RECURSIVE UploadLoop(_, _, _, _, _)
UploadLoop(auth, plan, rows, i, acc) ==
    IF i > Len(rows) THEN acc
    ELSE IF ~Unpacks(rows[i])
    THEN [acc EXCEPT !.raised = TRUE]
    ELSE IF RowIsValid(plan, rows[i])
    THEN LET r == InsertItem(auth, acc.cart, [plan |-> plan])
         IN  UploadLoop(auth, plan, rows, i + 1,
                 IF r.created
                 THEN [acc EXCEPT !.cart = r.cart, !.created = Append(@, i)]
                 ELSE [acc EXCEPT !.cart = r.cart, !.updated = Append(@, i)])
    ELSE UploadLoop(auth, plan, rows, i + 1,
             [acc EXCEPT !.failed = Append(@, i)])

\* An exception no handler catches ends the request with a 500 response.
\* Whether the mutations made before it are kept (database autocommit) or
\* dropped (a transaction per request, a session that is not saved on an
\* error response) is the deployment's choice: `kept`.
CartItemUpload ==
    \E auth \in BOOLEAN, plan \in Slugs, rows \in SeqsUpTo(Rows, MaxRows) :
        LET cart == IF auth THEN dbCart ELSE session
            r == UploadLoop(auth, plan, rows, 1,
                     [cart |-> cart, created |-> <<>>, updated |-> <<>>,
                      failed |-> <<>>, raised |-> FALSE])
        IN  \E kept \in (IF r.raised THEN BOOLEAN ELSE {TRUE}) :
            LET after == IF kept THEN r.cart ELSE cart
            IN  /\ req' = [op |-> "upload", auth |-> auth, plan |-> plan,
                           rows |-> rows, pre |-> Pre]
                /\ resp' = [status |-> IF r.raised THEN 500 ELSE 200,
                            created |-> r.created, updated |-> r.updated,
                            failed |-> r.failed]
                /\ session' = IF auth THEN session ELSE after
                /\ dbCart' = IF auth THEN after ELSE dbCart
                /\ UNCHANGED <<charges, address>>

(***************************************************************************)
(* DELETE /cart/{plan}/  (CartItemDestroyAPIView)                          *)
(***************************************************************************)
\* destroy_in_session: the session cart without the items of the plan, and
\* whether there was one.
DestroyInSession(cart, candidate) ==
    [cart |-> SelectSeq(cart, LAMBDA item : item.plan # candidate),
     found |-> \E i \in 1..Len(cart) : cart[i].plan = candidate]

\* get_object: the position of the unrecorded cart item of the user for the
\* plan, the first one when there are several; 0 when there is none
\* (get_object_or_404 raises Http404).
GetObject(cart, candidate) ==
    LET matches == {i \in 1..Len(cart) : cart[i].plan = candidate}
    IN  IF matches = {} THEN 0
        ELSE CHOOSE i \in matches : \A j \in matches : i <= j

RemoveAt(cart, i) ==
    [k \in 1..(Len(cart) - 1) |-> IF k < i THEN cart[k] ELSE cart[k + 1]]

\* Mutant of Destroy: an item that is not found counts as deleted.
DestroyLenient(cart, candidate) ==
    LET i == GetObject(cart, candidate)
    IN  IF i = 0 THEN [status |-> 204, cart |-> cart]
        ELSE [status |-> 204, cart |-> RemoveAt(cart, i)]

\* DestroyAPIView.destroy: get_object, then delete it and answer 204; the
\* Http404 of get_object is answered as 404.
Destroy(cart, candidate) ==
    LET i == GetObject(cart, candidate)
    IN  IF i = 0 THEN [status |-> 404, cart |-> cart]
        ELSE [status |-> 204, cart |-> RemoveAt(cart, i)]

\* Mutant of DeletesFromDb: the database is tried for every authenticated
\* request.
DeletesFromDbAlways(destroyed, auth) == auth

\* `if not destroyed and is_authenticated(self.request)`
DeletesFromDb(destroyed, auth) == ~destroyed /\ auth

CartItemDelete ==
    \E auth \in BOOLEAN, plan \in Slugs :
        LET s == DestroyInSession(session, plan)
            toDb == DeletesFromDb(s.found, auth)
            d == Destroy(dbCart, plan)
        IN  /\ req' = [op |-> "delete", auth |-> auth, plan |-> plan,
                       pre |-> Pre]
            /\ session' = s.cart
            /\ dbCart' = IF toDb THEN d.cart ELSE dbCart
            /\ resp' = [status |-> IF toDb THEN d.status ELSE 204,
                        destroyed |-> s.found, db_tried |-> toDb]
            /\ UNCHANGED <<charges, address>>

(***************************************************************************)
(* POST /cart/redeem/  (CouponRedeemAPIView.post)                          *)
(***************************************************************************)
\* RedeemCouponSerializer: `code` is a required, non-blank CharField.
CodeIsValid(code) == code # ""

\* CartItem.objects.redeem(user, code): the coupon is applied to the cart
\* items of the user that carry none; true when there was one.
Redeem(cart, code) ==
    LET eligible == {i \in 1..Len(cart) : cart[i].coupon = ""}
    IN  IF code \in CouponCodes /\ eligible # {}
        THEN [cart |-> [i \in 1..Len(cart) |->
                           IF i \in eligible
                           THEN [cart[i] EXCEPT !.coupon = code]
                           ELSE cart[i]],
              redeemed |-> TRUE]
        ELSE [cart |-> cart, redeemed |-> FALSE]

\* Mutant of RedeemResponse: the result of redeem is not looked at.
RedeemResponseUnchecked(valid, redeemed) ==
    IF valid THEN [status |-> 200, body |-> "applied"]
    ELSE [status |-> 400, body |-> "errors"]

\* The response of CouponRedeemAPIView.post.
RedeemResponse(valid, redeemed) ==
    IF valid
    THEN IF redeemed THEN [status |-> 200, body |-> "applied"]
         ELSE [status |-> 400, body |-> "no_items"]
    ELSE [status |-> 400, body |-> "errors"]

\* The cart of request.user: an anonymous user has no cart items.
CouponRedeem ==
    \E auth \in BOOLEAN, code \in Codes :
        LET valid == CodeIsValid(code)
            r == Redeem(IF auth THEN dbCart ELSE <<>>, code)
            out == RedeemResponse(valid, valid /\ r.redeemed)
        IN  /\ req' = [op |-> "redeem", auth |-> auth, code |-> code,
                       pre |-> Pre]
            /\ resp' = [status |-> out.status, body |-> out.body,
                        redeem_called |-> valid,
                        redeemed |-> valid /\ r.redeemed]
            /\ dbCart' = IF valid /\ auth THEN r.cart ELSE dbCart
            /\ UNCHANGED <<session, charges, address>>

(***************************************************************************)
(* POST /billing/{organization}/checkout  (CheckoutAPIView.create)         *)
(***************************************************************************)
\* Pricing of the plans: period amount and number of prepayment options.
Price(plan) == IF plan = "basic" THEN 1 ELSE 0
Offered(plan) == IF plan = "basic" THEN 2 ELSE 0

BaseLine(plan) == [plan |-> plan, periods |-> 1, kind |-> "line"]
OptionLine(plan, k) == [plan |-> plan, periods |-> k, kind |-> "option"]
LineAmount(line) == Price(line.plan) * line.periods

\* CartMixin.as_invoicables: one invoicable per cart item of the user, with
\* the line to charge and the options that could be charged as well.
AsInvoicables(cart) ==
    [i \in 1..Len(cart) |->
        [plan |-> cart[i].plan,
         lines |-> <<BaseLine(cart[i].plan)>>,
         options |-> [k \in 1..Offered(cart[i].plan) |->
                         OptionLine(cart[i].plan, k)]]]

\* Python's seq[k] for a list: k counts from 0, a negative k from the end;
\* outside -len..len-1 it raises IndexError.
PyInRange(seq, k) == -Len(seq) <= k /\ k < Len(seq)
PyIndex(seq, k) == IF k >= 0 THEN seq[k + 1] ELSE seq[Len(seq) + k + 1]

\* The loop over enumerate(items_options), from `index` (counted from 0) on:
\* the queryset with the selected options appended to the lines, or
\* `raised` when queryset[index]['options'][opt_index] raises IndexError.
RECURSIVE ApplySelections(_, _, _)
ApplySelections(queryset, items_options, index) ==
    IF index >= Len(items_options)
    THEN [raised |-> FALSE, queryset |-> queryset]
    ELSE LET opt_index == items_options[index + 1] - 1
         IN  IF index >= Len(queryset)
             THEN ApplySelections(queryset, items_options, index + 1)
             ELSE IF opt_index >= Len(queryset[index + 1].options)
             THEN ApplySelections(queryset, items_options, index + 1)
             ELSE IF ~PyInRange(queryset[index + 1].options, opt_index)
             THEN [raised |-> TRUE, queryset |-> queryset]
             ELSE LET selected ==
                          PyIndex(queryset[index + 1].options, opt_index)
                  IN  ApplySelections(
                          [queryset EXCEPT ![index + 1].lines =
                              Append(@, selected)],
                          items_options, index + 1)

RECURSIVE SumAmounts(_)
SumAmounts(lines) ==
    IF lines = <<>> THEN 0
    ELSE LineAmount(Head(lines)) + SumAmounts(Tail(lines))

RECURSIVE Total(_)
Total(queryset) ==
    IF queryset = <<>> THEN 0
    ELSE SumAmounts(Head(queryset).lines) + Total(Tail(queryset))

NoCharge == [exists |-> FALSE, amount |-> 0]

\* Organization.update_address_if_empty
UpdateAddressIfEmpty(current, given) == IF current = "" THEN given ELSE current

\* Organization.checkout(queryset, user, token, remember_card): either the
\* processor fails (ProcessorError, nothing is persisted), or the cart items
\* are recorded and a charge for the invoiced total is created; with
\* nothing to collect there may be no charge at all.
OrgCheckout(queryset, fails, nothing) ==
    IF fails THEN [raised |-> TRUE, charge |-> NoCharge]
    ELSE IF Total(queryset) = 0 /\ nothing
    THEN [raised |-> FALSE, charge |-> NoCharge]
    ELSE [raised |-> FALSE,
          charge |-> [exists |-> TRUE, amount |-> Total(queryset)]]

\* Mutant of CheckoutResponse: a ProcessorError is answered like a checkout
\* with nothing to collect.
CheckoutResponseSwallow(out) ==
    IF ~out.raised /\ out.charge.exists /\ out.charge.amount > 0
    THEN [status |-> 200, body |-> "charge", amount |-> out.charge.amount]
    ELSE [status |-> 200, body |-> "empty", amount |-> 0]

\* Mutant of CheckoutResponse: a charge of amount 0 is serialized too.
CheckoutResponseAnyCharge(out) ==
    IF out.raised
    THEN [status |-> 403, body |-> "details", amount |-> 0]
    ELSE IF out.charge.exists /\ out.charge.amount >= 0
    THEN [status |-> 200, body |-> "charge", amount |-> out.charge.amount]
    ELSE [status |-> 200, body |-> "empty", amount |-> 0]

\* The try block of CheckoutAPIView.create and the return after it.
CheckoutResponse(out) ==
    IF out.raised
    THEN [status |-> 403, body |-> "details", amount |-> 0]
    ELSE IF out.charge.exists /\ out.charge.amount > 0
    THEN [status |-> 200, body |-> "charge", amount |-> out.charge.amount]
    ELSE [status |-> 200, body |-> "empty", amount |-> 0]

NotCalled == [raised |-> FALSE, charge |-> NoCharge]

\* request.data of the checkout: `items` is a list of integer options, or
\* the body does not validate (is_valid(raise_exception=True) answers 400).
CheckoutBodies ==
    [valid : {TRUE}, items : SeqsUpTo(SelValues, MaxSelections),
     given : Addresses]
    \cup [valid : {FALSE}, items : {<<>>}, given : {""}]

Checkout ==
    /\ Len(charges) < MaxCharges
    /\ \E body \in CheckoutBodies, fails \in BOOLEAN :
        LET computed == AsInvoicables(dbCart)
            a == ApplySelections(computed, body.items, 0)
        IN  /\ req' = [op |-> "checkout", valid |-> body.valid,
                       items |-> body.items, pre |-> Pre]
            /\ UNCHANGED session
            /\ IF ~body.valid
               THEN /\ resp' = [status |-> 400, body |-> "errors",
                                called |-> FALSE, passed |-> <<>>,
                                out |-> NotCalled]
                    /\ UNCHANGED <<dbCart, charges, address>>
               ELSE IF a.raised
               THEN /\ resp' = [status |-> 500, body |-> "error",
                                called |-> FALSE, passed |-> <<>>,
                                out |-> NotCalled]
                    /\ UNCHANGED <<dbCart, charges, address>>
               ELSE \E nothing \in (IF Total(a.queryset) = 0 /\ ~fails
                                    THEN BOOLEAN ELSE {FALSE}) :
                    LET out == OrgCheckout(a.queryset, fails, nothing)
                        r == CheckoutResponse(out)
                    IN  /\ address' =
                               UpdateAddressIfEmpty(address, body.given)
                        /\ charges' = IF out.charge.exists
                                      THEN Append(charges, out.charge.amount)
                                      ELSE charges
                        /\ dbCart' = IF out.raised THEN dbCart ELSE <<>>
                        /\ resp' = [status |-> r.status, body |-> r.body,
                                    called |-> TRUE, passed |-> a.queryset,
                                    out |-> out]

Next == CartItemPost \/ CartItemUpload \/ CartItemDelete \/ CouponRedeem

Spec == Init /\ [][Next]_vars

\* The checkout of a cart filled one plan at a time by its user.
CartItemPostSingle == CartItemPostWith({TRUE}, SingleBodies)

NextCheckout == CartItemPostSingle \/ Checkout

SpecCheckout == Init /\ [][NextCheckout]_vars

(***************************************************************************)
(* Properties.                                                             *)
(***************************************************************************)
Elems(seq) == {seq[i] : i \in 1..Len(seq)}

\* The cart a request works on: the database cart of an authenticated
\* request, the session cart of an anonymous one.
CartBefore == IF req.auth THEN req.pre.dbCart ELSE req.pre.session
CartAfter == IF req.auth THEN dbCart ELSE session

\* Selection i of a checkout designates an option offered for line i.
SelectionIsValid(computed, items, i) ==
    /\ i <= Len(computed)
    /\ items[i] \in 1..Len(computed[i].options)

\* C1: when no submitted selection of a checkout designates an offered
\* option of its line (no such line, or a value outside 1..len(options),
\* 0 and negative values included), no error is raised and
\* organization.checkout receives exactly the lines as_invoicables computed.
C1_InvalidSelectionsIgnored ==
    (req.op = "checkout" /\ req.valid) =>
        LET computed == AsInvoicables(req.pre.dbCart)
        IN  (\A i \in 1..Len(req.items) :
                ~SelectionIsValid(computed, req.items, i))
            => /\ resp.status # 500
               /\ resp.called
               /\ resp.passed = computed

\* C2: an upload with a row whose field count is not 3 is answered 200,
\* with every such row in `failed` and every well-formed valid row in
\* `created` or `updated`.
C2_MalformedRowIsolated ==
    (req.op = "upload" /\ \E i \in 1..Len(req.rows) : Len(req.rows[i]) # 3)
    => /\ resp.status = 200
       /\ \A i \in 1..Len(req.rows) :
            IF Len(req.rows[i]) # 3
            THEN i \in Elems(resp.failed)
            ELSE req.plan \in Plans
                 => i \in Elems(resp.created) \cup Elems(resp.updated)

\* C3 as stated: DELETE /cart/{plan}/ always responds 204.
C3_DeleteAlways204 == req.op = "delete" => resp.status = 204

\* C3 as amended: DELETE /cart/{plan}/ responds 204, except that an
\* authenticated request for a plan that is in neither the session cart nor
\* the user's unrecorded database cart responds 404.
C3_Delete204UnlessMissing ==
    req.op = "delete" =>
        resp.status =
            IF /\ req.auth
               /\ req.plan \notin PlansOf(req.pre.session)
               /\ req.plan \notin PlansOf(req.pre.dbCart)
            THEN 404 ELSE 204

\* An authenticated DELETE of a plan that an earlier DELETE removed.
C3_Witness ==
    /\ req.op = "delete" /\ req.auth
    /\ req.plan \in Plans
    /\ req.plan \notin PlansOf(req.pre.session)
    /\ req.plan \notin PlansOf(req.pre.dbCart)
    /\ resp.status = 404

C5_ProcessorError403 ==
    (req.op = "checkout" /\ resp.called /\ resp.out.raised)
    => /\ resp.status = 403
       /\ resp.body = "details"
       /\ charges = req.pre.charges

C5_Witness ==
    /\ req.op = "checkout" /\ resp.called /\ resp.out.raised
    /\ req.pre.dbCart # <<>>
    /\ resp.status = 403

\* C6: DELETE tries the database only when the plan was not found in the
\* session cart and the request is authenticated; when the plan is found in
\* the session cart the response is 204, the session cart holds no item of
\* the plan afterwards and the database cart is unchanged.
C6_SessionFirst ==
    req.op = "delete" =>
        /\ resp.db_tried
           => req.auth /\ req.plan \notin PlansOf(req.pre.session)
        /\ req.plan \in PlansOf(req.pre.session)
           => /\ resp.status = 204
              /\ req.plan \notin PlansOf(session)
              /\ dbCart = req.pre.dbCart

\* An authenticated DELETE of a plan that is in both carts.
C6_Witness ==
    /\ req.op = "delete" /\ req.auth
    /\ req.plan \in PlansOf(req.pre.session)
    /\ req.plan \in PlansOf(req.pre.dbCart)
    /\ resp.status = 204

\* C7: POST /cart/ responds 400 when the body is neither a valid item nor a
\* non-empty list of valid items, otherwise 201 when insert_item created at
\* least one of the items and 200 when it updated them all.
C7_PostStatus ==
    req.op = "cart_post" =>
        LET b == req.body
            rejected ==
                \/ b.kind = "single" /\ b.data.plan \notin Plans
                \/ /\ b.kind = "list"
                   /\ \/ b.data = <<>>
                      \/ \E i \in 1..Len(b.data) : b.data[i].plan \notin Plans
        IN  IF rejected THEN resp.status = 400
            ELSE /\ Len(resp.created) = IF b.kind = "single" THEN 1
                                        ELSE Len(b.data)
                 /\ resp.status = IF TRUE \in Elems(resp.created)
                                  THEN 201 ELSE 200

\* A list whose first item is created and whose second is an update.
C7_Witness ==
    /\ req.op = "cart_post"
    /\ resp.created = <<TRUE, FALSE>>
    /\ resp.status = 201

\* C8: POST /cart/redeem/ responds 200 with the confirmation exactly when
\* the code is valid and redeem returned true, 400 with the generic
\* rejection when redeem returned false, and 400 with the validation errors,
\* redeem not being called, when the body has no valid code.
C8_RedeemStatus ==
    req.op = "redeem" =>
        /\ (resp.status = 200 /\ resp.body = "applied")
           <=> (req.code # "" /\ resp.redeem_called /\ resp.redeemed)
        /\ (req.code # "" /\ ~resp.redeemed)
           => resp.status = 400 /\ resp.body = "no_items"
        /\ req.code = ""
           => /\ resp.status = 400 /\ resp.body = "errors"
              /\ ~resp.redeem_called
              /\ dbCart = req.pre.dbCart
        /\ resp.status \in {200, 400}

C8_Witness ==
    /\ req.op = "redeem"
    /\ resp.status = 200
    /\ \E i \in 1..Len(dbCart) : dbCart[i].coupon = req.code

C10_RejectedPostChangesNothing ==
    (req.op = "cart_post" /\ resp.status = 400)
    => /\ resp.inserted = <<>>
       /\ session = req.pre.session
       /\ dbCart = req.pre.dbCart

\* A rejected list with a valid item, of a plan not yet in the cart, next
\* to an invalid one.
C10_Witness ==
    /\ req.op = "cart_post" /\ resp.status = 400
    /\ req.body.kind = "list"
    /\ \E i, j \in 1..Len(req.body.data) :
        /\ req.body.data[i].plan \in Plans \ PlansOf(CartBefore)
        /\ req.body.data[j].plan \notin Plans

\* C11: of a checkout that reaches organization.checkout, line item i is
\* passed with its computed lines followed by option v of line item i when
\* the selection at position i has a valid value v, and with its computed
\* lines alone when position i has no valid selection; no line item is added
\* or removed.
C11_SelectionAppendsItsOption ==
    (req.op = "checkout" /\ req.valid /\ resp.called) =>
        LET computed == AsInvoicables(req.pre.dbCart)
        IN  /\ Len(resp.passed) = Len(computed)
            /\ \A i \in 1..Len(computed) :
                resp.passed[i].lines =
                    IF i <= Len(req.items)
                       /\ SelectionIsValid(computed, req.items, i)
                    THEN Append(computed[i].lines,
                                computed[i].options[req.items[i]])
                    ELSE computed[i].lines
====
